---------------------------- MODULE Spec2Model ----------------------------
(***************************************************************************)
(* CKY recognition and Viterbi parsing over a PCFG in Chomsky normal form  *)
(* (cky.py, grammar.py).                                                   *)
(*                                                                         *)
(* Python values are modelled with their run-time type, because the code   *)
(* inspects it (isinstance): a value is a record [ty, v].  Dicts keep      *)
(* their insertion order: a dict is a sequence of <<key, value>> pairs.    *)
(* A rule probability is a dyadic fraction 1/d, held as its denominator d, *)
(* so that math.log2 and the float sums of the parser are exact integers.  *)
(***************************************************************************)
EXTENDS Integers, Sequences, FiniteSets, TLC

VARIABLES grammar_file,   \* the rule lines the grammar was read from
          rhs_to_rules,   \* Pcfg.rhs_to_rules: defaultdict(list)
          lhs_to_rules,   \* Pcfg.lhs_to_rules: defaultdict(list)
          startsymbol,    \* Pcfg.startsymbol
          hashorder,      \* iteration order of the sets of cky.py:114
          tokens,         \* toks
          member,         \* outcome of is_in_language(toks)
          charts,         \* outcome of parse_with_backpointers(toks)
          tree,           \* outcome of get_tree(table, 0, n, nt)
          tablefmt,       \* outcome of check_table_format
          probsfmt        \* outcome of check_probs_format

vars == <<grammar_file, rhs_to_rules, lhs_to_rules, startsymbol, hashorder,
          tokens, member, charts, tree, tablefmt, probsfmt>>

MaxLen == 3

Nonterminals == {"S", "A", "B"}
Terminals == {"a", "b"}

-----------------------------------------------------------------------------
(* Python values and call outcomes *)

PyInt(n) == [ty |-> "int", v |-> n]
PyStr(s) == [ty |-> "str", v |-> s]
PyBytes(b) == [ty |-> "bytes", v |-> b]
PyTuple(items) == [ty |-> "tuple", v |-> items]
PyDict(items) == [ty |-> "dict", v |-> items]
PyFloat(f) == [ty |-> "float", v |-> f]
PyNone == [ty |-> "NoneType", v |-> 0]

isinstance(x, t) == x.ty = t

NotCalled == [kind |-> "none", val |-> 0]
Return(x) == [kind |-> "return", val |-> x]
Raise(e) == [kind |-> "raise", val |-> e]

(* floats: an integer-valued finite float, or -inf *)
Fin(n) == [fin |-> TRUE, n |-> n]
NegInf == [fin |-> FALSE, n |-> 0]
FloatAdd(a, b) == IF a.fin /\ b.fin THEN Fin(a.n + b.n) ELSE NegInf
FloatGt(a, b) == a.fin /\ (~b.fin \/ a.n > b.n)

RECURSIVE Log2Den(_)
Log2Den(d) == IF d <= 1 THEN 0 ELSE 1 + Log2Den(d \div 2)
(* math.log2(p) for p = 1/d *)
log2(p) == Fin(0 - Log2Den(p))

(* range(a, b) *)
Range(a, b) == IF b <= a THEN <<>> ELSE [n \in 1..(b - a) |-> a + n - 1]

RECURSIVE Flatten(_)
Flatten(ss) == IF ss = <<>> THEN <<>> ELSE Head(ss) \o Flatten(Tail(ss))

(* dict operations on the pair sequence *)
DictHas(items, k) == \E n \in 1..Len(items) : items[n][1] = k
DictGet(items, k) == items[CHOOSE n \in 1..Len(items) : items[n][1] = k][2]
DictSet(items, k, x) ==
    IF DictHas(items, k)
    THEN [n \in 1..Len(items) |-> IF items[n][1] = k THEN <<k, x>> ELSE items[n]]
    ELSE Append(items, <<k, x>>)
DictKeys(items) == [n \in 1..Len(items) |-> items[n][1]]

-----------------------------------------------------------------------------
(* grammar.py *)

(* A rule is <<lhs, rhs, prob>>, rhs a tuple of symbols, prob the            *)
(* denominator d of the probability 1/d.                                    *)
RulePool == <<
    <<"S", <<"S", "S">>, 2>>,
    <<"S", <<"a">>, 2>>,
    <<"S", <<"A", "B">>, 2>>,
    <<"A", <<"a">>, 2>>,
    <<"A", <<"a">>, 4>>,
    <<"A", <<"S", "B">>, 4>>,
    <<"B", <<"b">>, 1>> >>

RECURSIVE SelectRules(_, _)
SelectRules(pool, chosen) ==
    IF pool = <<>> THEN <<>>
    ELSE LET rest == SelectRules(Tail(pool), {c - 1 : c \in chosen \ {1}})
         IN  IF 1 \in chosen THEN <<Head(pool)>> \o rest ELSE rest

GrammarFiles == {SelectRules(RulePool, c) : c \in SUBSET (1..Len(RulePool))}

(* read_rules: self.rhs_to_rules[rhs].append(rule).  The index is never     *)
(* iterated, so it is held as a function from its keys to the rule lists.   *)
RhsIndex(lines) ==
    [k \in {lines[n][2] : n \in 1..Len(lines)} |->
        SelectSeq(lines, LAMBDA r : r[2] = k)]

(* read_rules: self.lhs_to_rules[lhs].append(rule); iterated by             *)
(* verify_grammar, so the key order (first occurrence) is kept.             *)
RECURSIVE LhsIndex(_, _)
LhsIndex(lines, acc) ==
    IF lines = <<>> THEN acc
    ELSE LET r == Head(lines)
             old == IF DictHas(acc, r[1]) THEN DictGet(acc, r[1]) ELSE <<>>
         IN  LhsIndex(Tail(lines), DictSet(acc, r[1], Append(old, r)))

(* defaultdict(list).__getitem__: the value read *)
RhsLookup(index, k) == IF k \in DOMAIN index THEN index[k] ELSE <<>>
(* defaultdict(list).__getitem__: the dict after reading each key of keys *)
RhsTouch(index, keys) ==
    [k \in (DOMAIN index) \cup keys |-> RhsLookup(index, k)]

isupper(s) == s \in Nonterminals

RECURSIVE SeqProd(_)
SeqProd(ds) == IF ds = <<>> THEN 1 ELSE Head(ds) * SeqProd(Tail(ds))
RECURSIVE SeqSum(_)
SeqSum(ns) == IF ns = <<>> THEN 0 ELSE Head(ns) + SeqSum(Tail(ns))

(* isclose(fsum(probabilities), 1, rel_tol=1e-05): the probabilities are    *)
(* multiples of 1/D for D the product of the denominators; two such sums    *)
(* that differ do so by at least 1/D > 1e-05.                               *)
SumIsOne(rules) ==
    LET ds == [n \in 1..Len(rules) |-> rules[n][3]]
        D == SeqProd(ds)
    IN  SeqSum([n \in 1..Len(ds) |-> D \div ds[n]]) = D

RuleShapeOk(rhs) ==
    \/ Len(rhs) = 2 /\ \A n \in 1..Len(rhs) : isupper(rhs[n])
    \/ Len(rhs) = 1

RECURSIVE VerifyFrom(_)
VerifyFrom(index) ==
    IF index = <<>> THEN "confirmation!"
    ELSE LET rules == Head(index)[2]
         IN  IF ~SumIsOne(rules) THEN "error: sum!=1!"
             ELSE IF \E n \in 1..Len(rules) : ~RuleShapeOk(rules[n][2])
                  THEN "error: wrong format!"
                  ELSE VerifyFrom(Tail(index))

verify_grammar == VerifyFrom(lhs_to_rules)

-----------------------------------------------------------------------------
(* cky.py: CkyParser.is_in_language *)

(* line 96: the left-hand sides of the rules whose right-hand side is (tok,) *)
InitLhs(index, tok) ==
    LET rules == RhsLookup(index, <<tok>>)
    IN  {rules[n][1] : n \in 1..Len(rules)}

(* line 104: M *)
JoinLhs(index, left, right) ==
    UNION {LET rules == RhsLookup(index, <<bc[1], bc[2]>>)
           IN  {rules[n][1] : n \in 1..Len(rules)} : bc \in left \X right}

(* lines 103-105 for one span (i, j): the loop over k *)
RECURSIVE PiSplits(_, _, _, _, _)
PiSplits(index, pi, i, j, k) ==
    IF k >= j THEN pi
    ELSE PiSplits(index,
                  [pi EXCEPT ![i][j] = pi[i][j] \cup JoinLhs(index, pi[i][k], pi[k][j])],
                  i, j, k + 1)

(* lines 101-105 for one length l: the loop over i *)
RECURSIVE PiStarts(_, _, _, _, _)
PiStarts(index, pi, n, l, i) ==
    IF i >= n - l + 1 THEN pi
    ELSE PiStarts(index, PiSplits(index, pi, i, i + l, i + 1), n, l, i + 1)

(* lines 100-105: the loop over l *)
RECURSIVE PiLengths(_, _, _, _)
PiLengths(index, pi, n, l) ==
    IF l >= n + 1 THEN pi
    ELSE PiLengths(index, PiStarts(index, pi, n, l, 0), n, l + 1)

(* lines 95-105: the chart pi, rows 0..n-1, columns 0..n *)
PiChart(index, toks) ==
    LET n == Len(toks)
        pi0 == [i \in 0..(n - 1) |->
                  [j \in 0..n |-> IF j = i + 1 THEN InitLhs(index, toks[i + 1]) ELSE {}]]
    IN  PiLengths(index, pi0, n, 2)

(* line 106: pi[0][-1]; pi is the empty list when n = 0 *)
is_in_language(start, toks, pi) ==
    IF Len(toks) = 0 THEN Raise("IndexError")
    ELSE Return(start \in pi[0][Len(toks)])

(* the keys of rhs_to_rules read at lines 96 and 104 *)
KeysRead(toks, pi) ==
    LET n == Len(toks)
    IN  {<<toks[m]>> : m \in 1..n} \cup
        UNION {UNION {{<<b, c>> : b \in pi[s[1]][s[2]], c \in pi[s[2]][s[3]]} :
                        s \in {t \in (0..n) \X (0..n) \X (0..n) :
                                 t[1] < t[2] /\ t[2] < t[3]}}}

-----------------------------------------------------------------------------
(* cky.py: CkyParser.parse_with_backpointers *)

SpanKey(i, j) == PyTuple(<<PyInt(i), PyInt(j)>>)
Backpointer(x, i, k) == PyTuple(<<PyStr(x), PyInt(i), PyInt(k)>>)
(* line 131: ((0,0,0),(0,0,0)) *)
Sentinel ==
    PyTuple(<<PyTuple(<<PyInt(0), PyInt(0), PyInt(0)>>),
              PyTuple(<<PyInt(0), PyInt(0), PyInt(0)>>)>>)

(* lines 120-122: the loop over init[i], in the set's iteration order *)
RECURSIVE BaseCell(_, _, _)
BaseCell(cell, pairs, tok) ==
    IF pairs = <<>> THEN cell
    ELSE LET a == Head(pairs)[1]
             b == Head(pairs)[2]
         IN  BaseCell([tb |-> DictSet(cell.tb, PyStr(a), PyStr(tok)),
                       pb |-> DictSet(cell.pb, PyStr(a), PyFloat(log2(b)))],
                      Tail(pairs), tok)

(* lines 117-122: the loop over i *)
RECURSIVE BaseFill(_, _, _, _)
BaseFill(st, order, toks, i) ==
    IF i >= Len(toks) THEN st
    ELSE LET tok == toks[i + 1]
             cell == BaseCell([tb |-> <<>>, pb |-> <<>>], order[tok], tok)
         IN  BaseFill([tb |-> DictSet(st.tb, SpanKey(i, i + 1), PyDict(cell.tb)),
                       pb |-> DictSet(st.pb, SpanKey(i, i + 1), PyDict(cell.pb))],
                      order, toks, i + 1)

(* the nonterminals of a cell, in the dict's iteration order *)
CellKeys(pb, i, j) ==
    LET ks == DictKeys(DictGet(pb, SpanKey(i, j)).v)
    IN  [n \in 1..Len(ks) |-> ks[n].v]

(* The iteration of lines 128 and 132-135: every (k, x, y, rule), k         *)
(* ascending, x and y in their cells' order, the rules in the index's order *)
Candidates(index, pb, i, j) ==
    LET ks == Range(i + 1, j)
        ForRule(k, x, y) ==
            LET rules == RhsLookup(index, <<x, y>>)
            IN  [n \in 1..Len(rules) |->
                    [l |-> rules[n][1], p |-> rules[n][3], x |-> x, y |-> y, k |-> k]]
        ForY(k, x) ==
            LET ys == CellKeys(pb, k, j)
            IN  Flatten([n \in 1..Len(ys) |-> ForRule(k, x, ys[n])])
        ForX(k) ==
            LET xs == CellKeys(pb, i, k)
            IN  Flatten([n \in 1..Len(xs) |-> ForY(k, xs[n])])
    IN  Flatten([n \in 1..Len(ks) |-> ForX(ks[n])])

(* lines 129-131: the loop over L *)
RECURSIVE SeedCell(_, _)
SeedCell(cell, L) ==
    IF L = <<>> THEN cell
    ELSE SeedCell([tb |-> DictSet(cell.tb, PyStr(Head(L).l), Sentinel),
                   pb |-> DictSet(cell.pb, PyStr(Head(L).l), PyFloat(NegInf))],
                  Tail(L))

(* line 136 without the rule's own probability *)
CandidateProbNoRule(pb, i, j, c) ==
    FloatAdd(DictGet(DictGet(pb, SpanKey(i, c.k)).v, PyStr(c.x)).v,
             DictGet(DictGet(pb, SpanKey(c.k, j)).v, PyStr(c.y)).v)

(* line 136 *)
CandidateProb(pb, i, j, c) ==
    FloatAdd(FloatAdd(log2(c.p), DictGet(DictGet(pb, SpanKey(i, c.k)).v, PyStr(c.x)).v),
             DictGet(DictGet(pb, SpanKey(c.k, j)).v, PyStr(c.y)).v)

(* line 137 with >= for > *)
ImprovesOrTies(prob, best) == FloatGt(prob, best) \/ prob = best
(* line 137 with a comparison that -inf never loses *)
ImprovesFiniteOnly(prob, best) == prob.fin /\ best.fin /\ prob.n > best.n

(* line 137: prob > pb[(i,j)][l] *)
Improves(prob, best) == FloatGt(prob, best)

(* lines 136-140 for each candidate in turn *)
RECURSIVE BestCell(_, _, _, _, _)
BestCell(cell, pb, i, j, cands) ==
    IF cands = <<>> THEN cell
    ELSE LET c == Head(cands)
             prob == CandidateProb(pb, i, j, c)
         IN  BestCell(IF Improves(prob, DictGet(cell.pb, PyStr(c.l)).v)
                      THEN [pb |-> DictSet(cell.pb, PyStr(c.l), PyFloat(prob)),
                            tb |-> DictSet(cell.tb, PyStr(c.l),
                                           PyTuple(<<Backpointer(c.x, i, c.k),
                                                     Backpointer(c.y, c.k, j)>>))]
                      ELSE cell,
                      pb, i, j, Tail(cands))

(* lines 125-140 for one span *)
SpanCell(index, pb, i, j) ==
    LET cands == Candidates(index, pb, i, j)
    IN  BestCell(SeedCell([tb |-> <<>>, pb |-> <<>>], cands), pb, i, j, cands)

(* lines 124-140 for one length: the loop over i *)
RECURSIVE SpanStarts(_, _, _, _, _)
SpanStarts(index, st, n, length, i) ==
    IF i >= n - length + 1 THEN st
    ELSE LET j == i + length
             cell == SpanCell(index, st.pb, i, j)
         IN  SpanStarts(index,
                        [tb |-> DictSet(st.tb, SpanKey(i, j), PyDict(cell.tb)),
                         pb |-> DictSet(st.pb, SpanKey(i, j), PyDict(cell.pb))],
                        n, length, i + 1)

(* lines 123-140: the loop over length *)
RECURSIVE SpanLengths(_, _, _, _)
SpanLengths(index, st, n, length) ==
    IF length >= n + 1 THEN st
    ELSE SpanLengths(index, SpanStarts(index, st, n, length, 0), n, length + 1)

(* lines 113-142 *)
parse_with_backpointers(index, order, toks) ==
    LET st == SpanLengths(index, BaseFill([tb |-> <<>>, pb |-> <<>>], order, toks, 0),
                          Len(toks), 2)
    IN  Return([tb |-> PyDict(st.tb), pb |-> PyDict(st.pb)])

(* the keys of rhs_to_rules read at lines 114, 128 and 135 *)
ParseKeysRead(toks, pb) ==
    LET n == Len(toks)
        Keys(i, j) == LET ks == CellKeys(pb, i, j) IN {ks[m] : m \in 1..Len(ks)}
    IN  {<<toks[m]>> : m \in 1..n} \cup
        UNION {{<<x, y>> : x \in Keys(s[1], s[2]), y \in Keys(s[2], s[3])} :
                 s \in {t \in (0..n) \X (0..n) \X (0..n) : t[1] < t[2] /\ t[2] < t[3]}}

-----------------------------------------------------------------------------
(* cky.py: get_tree *)

(* get_tree with the two subtrees exchanged *)
RECURSIVE get_tree_swapped(_, _, _, _)
get_tree_swapped(chart, i, j, nt) ==
    IF ~DictHas(chart.v, SpanKey(i, j)) THEN Raise("KeyError")
    ELSE IF ~DictHas(DictGet(chart.v, SpanKey(i, j)).v, nt) THEN Raise("KeyError")
    ELSE LET x == DictGet(DictGet(chart.v, SpanKey(i, j)).v, nt)
         IN  IF isinstance(x, "tuple")
             THEN LET left == get_tree_swapped(chart, i, x.v[1].v[3].v, x.v[1].v[1])
                      right == get_tree_swapped(chart, x.v[1].v[3].v, j, x.v[2].v[1])
                  IN  IF left.kind = "raise" THEN left
                      ELSE IF right.kind = "raise" THEN right
                      ELSE Return(PyTuple(<<nt, right.val, left.val>>))
             ELSE Return(PyTuple(<<nt, x>>))

(* chart[(i,j)][nt] raises KeyError when the span or the nonterminal is     *)
(* absent: the charts are defaultdict() with no default factory.            *)
RECURSIVE get_tree(_, _, _, _)
get_tree(chart, i, j, nt) ==
    IF ~DictHas(chart.v, SpanKey(i, j)) THEN Raise("KeyError")
    ELSE IF ~DictHas(DictGet(chart.v, SpanKey(i, j)).v, nt) THEN Raise("KeyError")
    ELSE LET x == DictGet(DictGet(chart.v, SpanKey(i, j)).v, nt)
         IN  IF isinstance(x, "tuple")
             THEN LET left == get_tree(chart, i, x.v[1].v[3].v, x.v[1].v[1])
                      right == get_tree(chart, x.v[1].v[3].v, j, x.v[2].v[1])
                  IN  IF left.kind = "raise" THEN left
                      ELSE IF right.kind = "raise" THEN right
                      ELSE Return(PyTuple(<<nt, left.val, right.val>>))
             ELSE Return(PyTuple(<<nt, x>>))

-----------------------------------------------------------------------------
(* cky.py: check_table_format, check_probs_format *)

(* len(s) of the strings the model uses *)
StrLen(s) == IF s \in Nonterminals \cup Terminals THEN 1 ELSE 2

(* lines 17-18 and 56:                                                      *)
(*   not isinstance(split, tuple) and len(split) == 2 and                   *)
(*   isinstance(split[0], int) and isinstance(split[1], int)                *)
(* len() raises TypeError on an object without a length; indexing a str     *)
(* gives a str, indexing a bytes gives an int.                              *)
KeyRejected(split) ==
    IF isinstance(split, "tuple") THEN Return(FALSE)
    ELSE IF split.ty \notin {"str", "bytes"} THEN Raise("TypeError")
    ELSE IF (IF split.ty = "str" THEN StrLen(split.v) ELSE Len(split.v)) # 2
         THEN Return(FALSE)
    ELSE Return(split.ty = "bytes")

(* lines 38-44 for one backpointer *)
BackpointerOk(bp) ==
    /\ isinstance(bp, "tuple")
    /\ Len(bp.v) = 3
    /\ isinstance(bp.v[1], "str")
    /\ isinstance(bp.v[2], "int")
    /\ isinstance(bp.v[3], "int")

(* lines 25-44 for one entry of a span's dict *)
TableEntryOk(nt, bps) ==
    /\ isinstance(nt, "str")
    /\ \/ isinstance(bps, "str")
       \/ /\ isinstance(bps, "tuple")
          /\ Len(bps.v) = 2
          /\ \A n \in 1..Len(bps.v) : BackpointerOk(bps.v[n])

(* lines 16-44: the loop over the spans *)
RECURSIVE CheckTableSpans(_)
CheckTableSpans(items) ==
    IF items = <<>> THEN Return(TRUE)
    ELSE LET split == Head(items)[1]
             value == Head(items)[2]
             rejected == KeyRejected(split)
         IN  IF rejected.kind = "raise" THEN rejected
             ELSE IF rejected.val THEN Return(FALSE)
             ELSE IF ~isinstance(value, "dict") THEN Return(FALSE)
             ELSE IF \E n \in 1..Len(value.v) : ~TableEntryOk(value.v[n][1], value.v[n][2])
                  THEN Return(FALSE)
             ELSE CheckTableSpans(Tail(items))

check_table_format(table) ==
    IF ~isinstance(table, "dict") THEN Return(FALSE)
    ELSE CheckTableSpans(table.v)

(* lines 63-72 for one entry of a span's dict *)
ProbEntryOk(nt, prob) ==
    /\ isinstance(nt, "str")
    /\ isinstance(prob, "float")
    /\ ~FloatGt(prob.v, Fin(0))

(* lines 55-72: the loop over the spans *)
RECURSIVE CheckProbsSpans(_)
CheckProbsSpans(items) ==
    IF items = <<>> THEN Return(TRUE)
    ELSE LET split == Head(items)[1]
             value == Head(items)[2]
             rejected == KeyRejected(split)
         IN  IF rejected.kind = "raise" THEN rejected
             ELSE IF rejected.val THEN Return(FALSE)
             ELSE IF ~isinstance(value, "dict") THEN Return(FALSE)
             ELSE IF \E n \in 1..Len(value.v) : ~ProbEntryOk(value.v[n][1], value.v[n][2])
                  THEN Return(FALSE)
             ELSE CheckProbsSpans(Tail(items))

check_probs_format(table) ==
    IF ~isinstance(table, "dict") THEN Return(FALSE)
    ELSE CheckProbsSpans(table.v)

-----------------------------------------------------------------------------

TokenSeqs == UNION {[1..m -> Terminals] : m \in 0..MaxLen}

(* the (lhs, prob) pairs of line 114 for one token, as a set *)
InitPairs(index, tok) ==
    LET rules == RhsLookup(index, <<tok>>)
    IN  {<<rules[n][1], rules[n][3]>> : n \in 1..Len(rules)}

Orders(S) ==
    {s \in [1..Cardinality(S) -> S] : \A x \in S : \E n \in 1..Cardinality(S) : s[n] = x}

Init ==
    /\ grammar_file \in GrammarFiles
    /\ rhs_to_rules = RhsIndex(grammar_file)
    /\ lhs_to_rules = LhsIndex(grammar_file, <<>>)
    /\ startsymbol = "S"
    /\ tokens \in TokenSeqs
    /\ hashorder \in {h \in [{tokens[m] : m \in 1..Len(tokens)} ->
                              UNION {Orders(InitPairs(rhs_to_rules, t)) : t \in Terminals}] :
                        \A t \in DOMAIN h : h[t] \in Orders(InitPairs(rhs_to_rules, t))}
    /\ member = NotCalled
    /\ charts = NotCalled
    /\ tree = [nt |-> "", res |-> NotCalled]
    /\ tablefmt = [arg |-> PyNone, res |-> NotCalled]
    /\ probsfmt = [arg |-> PyNone, res |-> NotCalled]

IsInLanguage ==
    /\ LET pi == PiChart(rhs_to_rules, tokens)
       IN  /\ member' = is_in_language(startsymbol, tokens, pi)
           /\ rhs_to_rules' = RhsTouch(rhs_to_rules, KeysRead(tokens, pi))
    /\ UNCHANGED <<grammar_file, lhs_to_rules, startsymbol, hashorder, tokens,
                   charts, tree, tablefmt, probsfmt>>

ParseWithBackpointers ==
    /\ charts' = parse_with_backpointers(rhs_to_rules, hashorder, tokens)
    /\ rhs_to_rules' = RhsTouch(rhs_to_rules, ParseKeysRead(tokens, charts'.val.pb.v))
    /\ UNCHANGED <<grammar_file, lhs_to_rules, startsymbol, hashorder, tokens,
                   member, tree, tablefmt, probsfmt>>

(* get_tree(table, 0, len(toks), nt) on the table of the last parse *)
GetTree(nt) ==
    /\ charts.kind = "return"
    /\ tree' = [nt |-> nt, res |-> get_tree(charts.val.tb, 0, Len(tokens), PyStr(nt))]
    /\ UNCHANGED <<grammar_file, rhs_to_rules, lhs_to_rules, startsymbol, hashorder,
                   tokens, member, charts, tablefmt, probsfmt>>

(* __main__, lines 165-166: both validators on the charts of the last parse *)
Validate ==
    /\ charts.kind = "return"
    /\ tablefmt' = [arg |-> charts.val.tb, res |-> check_table_format(charts.val.tb)]
    /\ probsfmt' = [arg |-> charts.val.pb, res |-> check_probs_format(charts.val.pb)]
    /\ UNCHANGED <<grammar_file, rhs_to_rules, lhs_to_rules, startsymbol, hashorder,
                   tokens, member, charts, tree>>

Next ==
    \/ IsInLanguage
    \/ ParseWithBackpointers
    \/ \E nt \in Nonterminals : GetTree(nt)
    \/ Validate

Spec == Init /\ [][Next]_vars

-----------------------------------------------------------------------------
(* The validators on tables a caller may hand them: a chart of the parser,  *)
(* as returned or with one span key that is no pair of integers.            *)

BadKeys == <<
    PyTuple(<<PyInt(0), PyInt(1), PyInt(2)>>),
    PyTuple(<<PyInt(0), PyStr("a")>>),
    PyTuple(<<PyInt(0)>>),
    PyStr("ab"),
    PyBytes(<<0, 1>>),
    PyInt(5),
    PyNone >>

WithKeyAppended(table, key) == PyDict(Append(table.v, <<key, PyDict(<<>>)>>))
WithFirstKeyReplaced(table, key) ==
    IF table.v = <<>> THEN table
    ELSE PyDict(<<<<key, Head(table.v)[2]>>>> \o Tail(table.v))

InputTables(chart) ==
    {chart} \cup
    UNION {{WithKeyAppended(chart, BadKeys[n]),
            WithFirstKeyReplaced(chart, BadKeys[n])} : n \in 1..Len(BadKeys)}

CheckTableFormat(table) ==
    /\ tablefmt' = [arg |-> table, res |-> check_table_format(table)]
    /\ UNCHANGED <<grammar_file, rhs_to_rules, lhs_to_rules, startsymbol, hashorder,
                   tokens, member, charts, tree, probsfmt>>

CheckProbsFormat(table) ==
    /\ probsfmt' = [arg |-> table, res |-> check_probs_format(table)]
    /\ UNCHANGED <<grammar_file, rhs_to_rules, lhs_to_rules, startsymbol, hashorder,
                   tokens, member, charts, tree, tablefmt>>

InitValidators ==
    /\ Init
    /\ grammar_file = SelectRules(RulePool, {1, 2, 3, 4, 7})

NextValidators ==
    \/ ParseWithBackpointers
    \/ /\ charts.kind = "return"
       /\ \E table \in InputTables(charts.val.tb) : CheckTableFormat(table)
    \/ /\ charts.kind = "return"
       /\ \E table \in InputTables(charts.val.pb) : CheckProbsFormat(table)

SpecValidators == InitValidators /\ [][NextValidators]_vars

-----------------------------------------------------------------------------
(* Reading the charts *)

Spans(n) == {s \in (0..n) \X (0..n) : s[1] < s[2]}
HasCell(chart, i, j) == DictHas(chart.v, SpanKey(i, j))
Cell(chart, i, j) == DictGet(chart.v, SpanKey(i, j)).v
HasEntry(chart, i, j, A) == HasCell(chart, i, j) /\ DictHas(Cell(chart, i, j), PyStr(A))
Entry(chart, i, j, A) == DictGet(Cell(chart, i, j), PyStr(A))

RootHasStart(pb, n, start) == HasEntry(pb, 0, n, start) /\ Entry(pb, 0, n, start).v.fin

(* The best log2-probability of a derivation of toks[i:j] from A, by        *)
(* enumeration of the derivations under the rules as read from the file.    *)
FloatMax(S) ==
    IF \A f \in S : ~f.fin THEN NegInf
    ELSE CHOOSE f \in S : f.fin /\ \A g \in S : ~FloatGt(g, f)

RECURSIVE BestDerivation(_, _, _, _, _)
BestDerivation(lines, toks, A, i, j) ==
    IF j = i + 1
    THEN FloatMax({log2(lines[n][3]) :
                     n \in {m \in 1..Len(lines) :
                              lines[m][1] = A /\ lines[m][2] = <<toks[i + 1]>>}})
    ELSE FloatMax({FloatAdd(FloatAdd(log2(lines[nk[1]][3]),
                                     BestDerivation(lines, toks, lines[nk[1]][2][1], i, nk[2])),
                            BestDerivation(lines, toks, lines[nk[1]][2][2], nk[2], j)) :
                     nk \in {m \in 1..Len(lines) :
                               lines[m][1] = A /\ Len(lines[m][2]) = 2} \X ((i + 1)..(j - 1))})

(* the leaves of a tree of get_tree, left to right *)
RECURSIVE Leaves(_)
Leaves(t) ==
    IF Len(t.v) = 2 THEN <<t.v[2].v>>
    ELSE Leaves(t.v[2]) \o Leaves(t.v[3])

IsIntPair(key) ==
    /\ isinstance(key, "tuple")
    /\ Len(key.v) = 2
    /\ isinstance(key.v[1], "int")
    /\ isinstance(key.v[2], "int")

HasBadKey(table) == \E n \in 1..Len(table.v) : ~IsIntPair(table.v[n][1])

-----------------------------------------------------------------------------
(* C1: for a grammar that passes verify_grammar and any token sequence,     *)
(* is_in_language returns true exactly when the probability chart has the   *)
(* start symbol with a finite score in its root cell (0, n).                *)
C1_EnginesAgree ==
    (verify_grammar = "confirmation!" /\ member.kind # "none" /\ charts.kind = "return")
    => member = Return(RootHasStart(charts.val.pb, Len(tokens), startsymbol))

(* C4: on the empty token sequence neither engine raises: is_in_language    *)
(* returns False and parse_with_backpointers returns charts with no root    *)
(* entry.                                                                    *)
C4_EmptyInputIsNotAFault ==
    tokens = <<>> =>
        /\ member.kind # "none" => member = Return(FALSE)
        /\ charts.kind # "none" =>
              /\ charts.kind = "return"
              /\ ~RootHasStart(charts.val.pb, 0, startsymbol)
              /\ ~HasEntry(charts.val.tb, 0, 0, startsymbol)

(* C6: no engine call changes the grammar: both indices keep their key sets *)
(* and rule lists, and the start symbol stays.                              *)
C6_GrammarUnchanged ==
    /\ rhs_to_rules = RhsIndex(grammar_file)
    /\ lhs_to_rules = LhsIndex(grammar_file, <<>>)
    /\ startsymbol = "S"

(* C7: both validators return False on a table with a span key that is not  *)
(* a pair of integers.                                                      *)
C7_SpanKeysEnforced ==
    /\ (tablefmt.res.kind # "none" /\ HasBadKey(tablefmt.arg))
          => tablefmt.res = Return(FALSE)
    /\ (probsfmt.res.kind # "none" /\ HasBadKey(probsfmt.arg))
          => probsfmt.res = Return(FALSE)

(* C2: every score of the probability chart is the best log2-probability    *)
(* over all derivations of that nonterminal over that span.                 *)
C2_ScoresAreMaxima ==
    charts.kind = "return" =>
        \A s \in Spans(Len(tokens)) : \A A \in Nonterminals :
            HasEntry(charts.val.pb, s[1], s[2], A) =>
                Entry(charts.val.pb, s[1], s[2], A).v =
                    BestDerivation(grammar_file, tokens, A, s[1], s[2])

(* the unary rules A -> tok of the grammar file, in file order *)
UnaryRules(A, tok) == SelectSeq(grammar_file, LAMBDA r : r[1] = A /\ r[2] = <<tok>>)

(* C9: with several rules A -> token_i of different probabilities, the      *)
(* score of A at (i, i+1) is log2 of the probability of the rule that comes *)
(* last in the grammar's rule order.                                        *)
C9_LaterRuleWins ==
    charts.kind = "return" =>
        \A i \in 0..(Len(tokens) - 1) : \A A \in Nonterminals :
            LET rs == UnaryRules(A, tokens[i + 1])
            IN  (\E m, n \in 1..Len(rs) : rs[m][3] # rs[n][3]) =>
                    Entry(charts.val.pb, i, i + 1, A).v = log2(rs[Len(rs)][3])

(* C3: for n >= 1 tokens and a root cell (0, n) holding the start symbol,   *)
(* get_tree(table, 0, n, start symbol) returns a tree whose leaves, left to *)
(* right, are the tokens.                                                   *)
C3_TreeLeavesAreTokens ==
    (/\ tree.res.kind # "none"
     /\ tree.nt = startsymbol
     /\ Len(tokens) >= 1
     /\ HasEntry(charts.val.tb, 0, Len(tokens), startsymbol))
    => /\ tree.res.kind = "return"
       /\ Leaves(tree.res.val) = tokens

C3_Witness ==
    /\ tree.res.kind = "return"
    /\ tree.nt = startsymbol
    /\ Len(tokens) = 3
    /\ tokens[1] # tokens[3]
    /\ Len(tree.res.val.v) = 3
    /\ Leaves(tree.res.val) = tokens

(* C5: the charts of parse_with_backpointers pass both validators; no cell  *)
(* of them holds the sentinel ((0,0,0),(0,0,0)) or a score above 0.         *)
C5_ChartsPassValidators ==
    /\ tablefmt.res.kind # "none" =>
          (tablefmt.arg = charts.val.tb /\ tablefmt.res = Return(TRUE))
    /\ probsfmt.res.kind # "none" =>
          (probsfmt.arg = charts.val.pb /\ probsfmt.res = Return(TRUE))
    /\ charts.kind = "return" =>
          /\ \A n \in 1..Len(charts.val.tb.v) :
                LET cell == charts.val.tb.v[n][2].v
                IN  \A e \in 1..Len(cell) : cell[e][2] # Sentinel
          /\ \A n \in 1..Len(charts.val.pb.v) :
                LET cell == charts.val.pb.v[n][2].v
                IN  \A e \in 1..Len(cell) : ~FloatGt(cell[e][2].v, Fin(0))

C5_Witness ==
    /\ tablefmt.res = Return(TRUE)
    /\ probsfmt.res = Return(TRUE)
    /\ Len(tokens) = 3
    /\ HasEntry(charts.val.tb, 0, 3, "S")
    /\ HasEntry(charts.val.tb, 0, 2, "A")

(* the enumeration of lines 132-135 for span (i, j) of the returned charts, *)
(* each candidate with its score (line 136) and its backpointer (line 140)  *)
ScoredCandidates(i, j) ==
    LET cands == Candidates(rhs_to_rules, charts.val.pb.v, i, j)
    IN  [n \in 1..Len(cands) |->
            [l |-> cands[n].l,
             prob |-> CandidateProb(charts.val.pb.v, i, j, cands[n]),
             bps |-> PyTuple(<<Backpointer(cands[n].x, i, cands[n].k),
                               Backpointer(cands[n].y, cands[n].k, j)>>)]]

(* C8: for a span of length >= 2 and a nonterminal A in it, the stored      *)
(* score is the best candidate score and the stored backpointer is that of  *)
(* the first candidate, in enumeration order, that attains it: a later      *)
(* candidate of equal score does not replace it.                            *)
C8_FirstBestCandidateKept ==
    charts.kind = "return" =>
        \A s \in Spans(Len(tokens)) :
            s[2] - s[1] >= 2 =>
                LET sc == ScoredCandidates(s[1], s[2])
                    cell == Cell(charts.val.pb, s[1], s[2])
                IN  \A e \in 1..Len(cell) :
                        LET A == cell[e][1].v
                            mine == {n \in 1..Len(sc) : sc[n].l = A}
                            best == FloatMax({sc[n].prob : n \in mine})
                            first == CHOOSE n \in mine :
                                        /\ sc[n].prob = best
                                        /\ \A m \in mine : m < n => sc[m].prob # best
                        IN  /\ mine # {}
                            /\ cell[e][2].v = best
                            /\ Entry(charts.val.tb, s[1], s[2], A) = sc[first].bps

C8_Witness ==
    /\ charts.kind = "return"
    /\ \E s \in Spans(Len(tokens)) : \E A \in Nonterminals :
          /\ s[2] - s[1] >= 2
          /\ HasEntry(charts.val.pb, s[1], s[2], A)
          /\ LET sc == ScoredCandidates(s[1], s[2])
             IN  \E m, n \in {c \in 1..Len(sc) : sc[c].l = A} :
                    /\ m < n
                    /\ sc[m].prob = Entry(charts.val.pb, s[1], s[2], A).v
                    /\ sc[n].prob = Entry(charts.val.pb, s[1], s[2], A).v
                    /\ sc[m].bps # sc[n].bps
                    /\ Entry(charts.val.tb, s[1], s[2], A) = sc[m].bps

(* C10: the two charts have the same spans and, per span, the same          *)
(* nonterminals; and for a span (i, j) of length >= 2 and A in it, the      *)
(* backpointer is ((B, i, k), (C, k, j)) with i < k < j, B in cell (i, k),  *)
(* C in cell (k, j), A -> B C a rule of the grammar with a probability p,   *)
(* and score(i, j, A) = log2(p) + score(i, k, B) + score(k, j, C), finite.  *)
C10_ChartsConsistent ==
    charts.kind = "return" =>
        LET tb == charts.val.tb
            pb == charts.val.pb
            KeySet(items) == {items[n][1] : n \in 1..Len(items)}
        IN  /\ KeySet(tb.v) = KeySet(pb.v)
            /\ \A n \in 1..Len(tb.v) :
                  KeySet(tb.v[n][2].v) = KeySet(DictGet(pb.v, tb.v[n][1]).v)
            /\ \A s \in Spans(Len(tokens)) : \A A \in Nonterminals :
                  (s[2] - s[1] >= 2 /\ HasEntry(tb, s[1], s[2], A)) =>
                      LET bp == Entry(tb, s[1], s[2], A)
                      IN  /\ isinstance(bp, "tuple") /\ Len(bp.v) = 2
                          /\ BackpointerOk(bp.v[1]) /\ BackpointerOk(bp.v[2])
                          /\ LET B == bp.v[1].v[1].v
                                 C == bp.v[2].v[1].v
                                 k == bp.v[1].v[3].v
                             IN  /\ bp.v[1].v[2].v = s[1]
                                 /\ bp.v[2].v[2].v = k
                                 /\ bp.v[2].v[3].v = s[2]
                                 /\ s[1] < k /\ k < s[2]
                                 /\ HasEntry(pb, s[1], k, B)
                                 /\ HasEntry(pb, k, s[2], C)
                                 /\ Entry(pb, s[1], s[2], A).v.fin
                                 /\ \E m \in 1..Len(grammar_file) :
                                       /\ grammar_file[m][1] = A
                                       /\ grammar_file[m][2] = <<B, C>>
                                       /\ Entry(pb, s[1], s[2], A).v =
                                            FloatAdd(FloatAdd(log2(grammar_file[m][3]),
                                                              Entry(pb, s[1], k, B).v),
                                                     Entry(pb, k, s[2], C).v)

C10_Witness ==
    /\ charts.kind = "return"
    /\ Len(tokens) = 3
    /\ HasEntry(charts.val.tb, 0, 3, "S")
    /\ HasEntry(charts.val.tb, 0, 2, "A")
    /\ Entry(charts.val.tb, 0, 3, "S").v[1].v[3].v = 2
    /\ Entry(charts.val.pb, 0, 3, "S").v.n < 0

=============================================================================
